---- MODULE Spec2Model ----
(***************************************************************************)
(* Model of usecase/productRequest.go: the productRequestService and its   *)
(* collaborators (request store, offer store, user store, object store,    *)
(* notifier).                                                              *)
(*                                                                         *)
(* Go pointers that may be nil (UserID, SelectedOfferID, SelectedOffer)     *)
(* are optionals: None is nil, Some(x) points at x.                        *)
(* Go strings that the code concatenates or splits are sequences of        *)
(* tokens, so that "bucket/key" is built and taken apart, not assumed.     *)
(***************************************************************************)
EXTENDS Integers, Sequences, FiniteSets, TLC

\* ------------------------------------------------------------------ bounds
\* writes to the request store that one behaviour may perform
MaxWrites == 2
\* files of one CreateProductRequest call
MaxFiles == 3
\* rows the store may report for a paginated query
MaxRows == 5
\* width of the machine integer (Go int is 64 bits; the model keeps
\* two's-complement wrap-around at a width TLC can enumerate)
IntBits == 8

\* ------------------------------------------------------------- optionals
None == <<>>
Some(x) == <<x>>
IsNone(o) == o = <<>>
Deref(o) == o[1]

\* ---------------------------------------------------------------- types
Admin == "Admin"
UserRole == "User"
Purchased == "Purchased"
DeliveryStatuses == {"Pending", "Purchased", "Delivered"}

\* error values; ErrNil is Go's nil error
ErrNil == "nil"
ErrCouldNotUpdateStatus == "ErrCouldNotUpdateStatus"
ErrPermissionDenied == "ErrPermissionDenied"
ErrRecordNotFound == "ErrRecordNotFound"
ErrDB == "ErrDB"
ErrNotify == "ErrNotify"
PanicNilDeref == "panic: nil pointer dereference"
PanicIndex == "panic: index out of range"
Running == "running"

\* ------------------------------------------------------- user/offer stores
\* userRepo: the users the service can look up and their roles
UserTable ==
    [buyer |-> [ID |-> "buyer", Role |-> UserRole],
     traveler |-> [ID |-> "traveler", Role |-> UserRole],
     traveler2 |-> [ID |-> "traveler2", Role |-> UserRole],
     admin |-> [ID |-> "admin", Role |-> Admin]]

\* the user ids a caller may present; "ghost" has no user record
Callers == {"buyer", "traveler", "admin", "ghost"}
\* the user ids presented to UpdateProductRequest
Owners == {"buyer", "traveler"}

\* offerRepo: offers 1 and 2 were made on request 1, offer 3 on another
\* request; no offer has id 9
OfferTable ==
    [o \in {1, 2, 3} |->
        [ID |-> o,
         UserID |-> IF o = 2 THEN "traveler2" ELSE "traveler",
         ProductRequestID |-> IF o = 3 THEN 2 ELSE 1]]

OfferIDs == {1, 2, 3, 9}

OffersOf(prID) == {OfferTable[o] : o \in {x \in DOMAIN OfferTable : OfferTable[x].ProductRequestID = prID}}

\* ------------------------------------------------------------- the state
VARIABLES
    requests,   \* request store: id -> ProductRequest
    ver,        \* number of writes the request store has accepted
    calls,      \* the in-flight or last call of each caller goroutine
    created,    \* the last CreateProductRequest call and what it did
    paged       \* the last GetPaginatedProductRequests call and its result

vars == <<requests, ver, calls, created, paged>>

Procs == {1, 2}

\* a request as CreateProductRequest leaves it: no selected offer
NewRequest(id, owner, images) ==
    [ID |-> id, UserID |-> owner, Name |-> "n0", Desc |-> "d0", Budget |-> 100,
     Category |-> "c0", Quantity |-> 1, Images |-> images,
     Offers |-> OffersOf(id), SelectedOfferID |-> None, SelectedOffer |-> None,
     DeliveryStatus |-> "Pending"]

IdleCall ==
    [op |-> "idle", pc |-> "idle", prID |-> 0, userID |-> "", req |-> None,
     snapshot |-> None, productRequest |-> None, user |-> None, offer |-> None, err |-> Running,
     trace |-> <<>>, updArg |-> None, notifyArg |-> None,
     readVer |-> 0, wroteVer |-> 0, before |-> None]

NoCreate ==
    [files |-> <<>>, outs |-> <<>>, given |-> None, uploads |-> <<>>,
     createArg |-> None, createErr |-> Running, stored |-> 0, err |-> Running]

NoPage ==
    [page |-> 0, limit |-> 0, totalRows |-> 0, rows |-> <<>>,
     err |-> Running, res |-> None]

\* request 1 as the store can hold it when the service starts: as created by
\* the buyer, as created with no owner, or after the buyer selected offer 1
InitialRequests ==
    {NewRequest(1, Some("buyer"), <<>>),
     NewRequest(1, None, <<>>),
     [NewRequest(1, Some("buyer"), <<>>) EXCEPT
        !.SelectedOfferID = Some(1), !.SelectedOffer = Some(OfferTable[1])]}

InitWith(r) ==
    /\ requests = (1 :> r)
    /\ ver = 0
    /\ calls = [p \in Procs |-> IdleCall]
    /\ created = NoCreate
    /\ paged = NoPage

Init == \E r \in InitialRequests : InitWith(r)

\* the store holding the one request the buyer created
InitFresh == InitWith(NewRequest(1, Some("buyer"), <<>>))


\* ------------------------------------------------- collaborator contracts
\* repo.FindByID: the stored request, or a not-found error
RepoFindByID(id) ==
    IF id \in DOMAIN requests
    THEN {[err |-> ErrNil, val |-> Some(requests[id])]}
    ELSE {[err |-> ErrRecordNotFound, val |-> None]}

\* userRepo.FindByID: the user record, or a not-found error
UserFindByID(userID) ==
    IF userID \in DOMAIN UserTable
    THEN {[err |-> ErrNil, val |-> Some(UserTable[userID])]}
    ELSE {[err |-> ErrRecordNotFound, val |-> None]}

\* offerRepo.GetByID: populates the offer, or fails (not found, or the
\* database fails)
OfferGetByID(id) ==
    IF id \in DOMAIN OfferTable
    THEN {[err |-> ErrNil, val |-> Some(OfferTable[id])],
          [err |-> ErrDB, val |-> None]}
    ELSE {[err |-> ErrRecordNotFound, val |-> None]}

\* repo.Update: persists the whole entity under its id, or fails
RepoUpdateOutcomes == {ErrNil, ErrDB}
Save(store, productRequest) == [store EXCEPT ![productRequest.ID] = productRequest]

\* notificationService.PrNotify: succeeds or fails
NotifyOutcomes == {ErrNil, ErrNotify}

\* --------------------------------------------- UpdateProductRequestStatus
\* the guard of line 59 left out
CouldNotUpdateStatus_Never(productRequest) == FALSE

\* line 59: no offer has been selected
CouldNotUpdateStatus(productRequest) == IsNone(productRequest.SelectedOfferID)

\* lines 80-82 left out: the offer's owner may set any status
StatusPermitted_AnyTarget(user, offer, userID, req) ==
    user.Role = Admin \/ offer.UserID = userID

\* lines 76-78 left out: any user may set Purchased
StatusPermitted_AnyUser(user, offer, userID, req) ==
    user.Role = Admin \/ req.DeliveryStatus = Purchased

\* lines 75-83: the authorization branch
StatusPermitted(user, offer, userID, req) ==
    IF user.Role # Admin
    THEN IF offer.UserID # userID
         THEN FALSE
         ELSE IF req.DeliveryStatus # Purchased THEN FALSE ELSE TRUE
    ELSE TRUE

\* line 85 left out
SetDeliveryStatus_Forgotten(productRequest, req) == productRequest

\* line 85
SetDeliveryStatus(productRequest, req) ==
    [productRequest EXCEPT !.DeliveryStatus = req.DeliveryStatus]

\* lines 93-95 left out: a best-effort notification
NotifyResult_Swallowed(err) == ErrNil

\* lines 92-97: the notifier's error is the call's error
NotifyResult(err) == IF err # ErrNil THEN err ELSE ErrNil

\* ---------------------------------------------------- UpdateProductRequest
\* the check of line 106 left out
NotOwner_Never(productRequest, userID) == FALSE

\* line 106 (the owner pointer is not nil)
NotOwner(productRequest, userID) == Deref(productRequest.UserID) # userID

\* line 125 left out: any existing offer is accepted
OfferFound_Always(productRequest, offer) == TRUE

\* lines 117-123
OfferFound(productRequest, offer) ==
    \E o \in productRequest.Offers : o.ID = offer.ID

\* line 129 left out
ApplyUpdate_KeepsName(productRequest, req, offer) ==
    [productRequest EXCEPT
        !.Desc = req.Desc, !.Budget = req.Budget,
        !.Category = req.Category, !.Quantity = req.Quantity,
        !.SelectedOfferID = Some(req.SelectedOfferID),
        !.SelectedOffer = Some(offer)]

\* lines 129-135
ApplyUpdate(productRequest, req, offer) ==
    [productRequest EXCEPT
        !.Name = req.Name, !.Desc = req.Desc, !.Budget = req.Budget,
        !.Category = req.Category, !.Quantity = req.Quantity,
        !.SelectedOfferID = Some(req.SelectedOfferID),
        !.SelectedOffer = Some(offer)]

\* ------------------------------------------------------------ the inputs
PrIDs == {1, 2}

\* the statuses a caller may ask for
StatusDTOs == {[DeliveryStatus |-> s] : s \in DeliveryStatuses \ {"Pending"}}

UpdateDTOs ==
    {[Name |-> "n1", Desc |-> "d1", Budget |-> 200, Category |-> "c1",
      Quantity |-> 2, SelectedOfferID |-> o] : o \in OfferIDs}

\* ------------------------------------------------------------ call steps
InFlight == Cardinality({p \in Procs : calls[p].pc \notin {"idle", "done"}})

\* a goroutine may enter a call when its last one has returned; the number
\* of writes a behaviour can still perform is capped by MaxWrites
\* (goroutines are interchangeable: the second is used only while the first
\* is busy)
CanStart(p) ==
    /\ calls[p].pc \in {"idle", "done"}
    /\ p = 2 => calls[1].pc \notin {"idle", "done"}
    /\ ver + InFlight < MaxWrites

Return(c, err) == [c EXCEPT !.pc = "done", !.err = err]

\* the call's record once repo.FindByID has answered r
Enter(op, prID, userID, req, r) ==
    [IdleCall EXCEPT !.op = op, !.prID = prID, !.userID = userID,
                     !.req = Some(req), !.readVer = ver,
                     !.snapshot = r.val, !.productRequest = r.val,
                     !.trace = <<<<"repo.FindByID", r.err>>>>]

\* the collaborator calls a call has made, in order, each with its error
Traced(c, what, err) == [c EXCEPT !.trace = Append(@, <<what, err>>)]

StoreUnchanged == UNCHANGED <<requests, ver, created, paged>>

\* lines 53-61: entry, repo.FindByID and the selected-offer guard
StatusFindByID(p, prID, userID, req) ==
    /\ CanStart(p)
    /\ \E r \in RepoFindByID(prID) :
         LET c == Enter("UpdateProductRequestStatus", prID, userID, req, r)
         IN calls' = [calls EXCEPT ![p] =
                IF r.err # ErrNil THEN Return(c, r.err)
                ELSE IF CouldNotUpdateStatus(Deref(r.val))
                     THEN Return(c, ErrCouldNotUpdateStatus)
                     ELSE [c EXCEPT !.pc = "userRepo.FindByID"]]
    /\ StoreUnchanged

\* lines 63-66
StatusUserFindByID(p) ==
    /\ calls[p].op = "UpdateProductRequestStatus"
    /\ calls[p].pc = "userRepo.FindByID"
    /\ \E r \in UserFindByID(calls[p].userID) :
         LET c == [Traced(calls[p], "userRepo.FindByID", r.err) EXCEPT !.user = r.val]
         IN calls' = [calls EXCEPT ![p] =
                IF r.err # ErrNil THEN Return(c, r.err)
                ELSE [c EXCEPT !.pc = "offerRepo.GetByID"]]
    /\ StoreUnchanged

\* lines 68-85: offerRepo.GetByID of the selected offer, the authorization
\* branch and the assignment of the new status
StatusOfferGetByID(p) ==
    /\ calls[p].op = "UpdateProductRequestStatus"
    /\ calls[p].pc = "offerRepo.GetByID"
    /\ LET c0 == calls[p]
           pr == Deref(c0.productRequest)
       IN IF IsNone(pr.SelectedOfferID)
          THEN calls' = [calls EXCEPT ![p] = Return(c0, PanicNilDeref)]
          ELSE \E r \in OfferGetByID(Deref(pr.SelectedOfferID)) :
                 LET c == [Traced(c0, "offerRepo.GetByID", r.err) EXCEPT !.offer = r.val]
                 IN calls' = [calls EXCEPT ![p] =
                        IF r.err # ErrNil THEN Return(c, r.err)
                        ELSE IF ~StatusPermitted(Deref(c.user), Deref(r.val),
                                                 c.userID, Deref(c.req))
                             THEN Return(c, ErrPermissionDenied)
                             ELSE [c EXCEPT
                                     !.productRequest =
                                        Some(SetDeliveryStatus(pr, Deref(c.req))),
                                     !.pc = "repo.Update"]]
    /\ StoreUnchanged

\* repo.Update(productRequest) of either operation: lines 87-90 and 137-141
RepoUpdate(p, next) ==
    /\ calls[p].pc = "repo.Update"
    /\ \E e \in RepoUpdateOutcomes :
         LET c0 == calls[p]
             pr == Deref(c0.productRequest)
             c == [Traced(c0, "repo.Update", e) EXCEPT
                      !.updArg = Some(pr), !.before = Some(requests[pr.ID])]
         IN IF e # ErrNil
            THEN /\ calls' = [calls EXCEPT ![p] = Return(c, e)]
                 /\ UNCHANGED <<requests, ver>>
            ELSE /\ requests' = Save(requests, pr)
                 /\ ver' = ver + 1
                 /\ calls' = [calls EXCEPT ![p] =
                        IF next = "done"
                        THEN Return([c EXCEPT !.wroteVer = ver + 1], ErrNil)
                        ELSE [c EXCEPT !.wroteVer = ver + 1, !.pc = next]]
    /\ UNCHANGED <<created, paged>>

\* lines 87-90
StatusRepoUpdate(p) ==
    /\ calls[p].op = "UpdateProductRequestStatus"
    /\ RepoUpdate(p, "PrNotify")

\* lines 92-97
StatusPrNotify(p) ==
    /\ calls[p].op = "UpdateProductRequestStatus"
    /\ calls[p].pc = "PrNotify"
    /\ \E e \in NotifyOutcomes :
         LET c == [Traced(calls[p], "PrNotify", e) EXCEPT
                      !.notifyArg = calls[p].productRequest]
         IN calls' = [calls EXCEPT ![p] = Return(c, NotifyResult(e))]
    /\ StoreUnchanged

\* lines 100-108: entry, repo.FindByID and the owner check
UpdateFindByID(p, prID, userID, req) ==
    /\ CanStart(p)
    /\ \E r \in RepoFindByID(prID) :
         LET c == Enter("UpdateProductRequest", prID, userID, req, r)
         IN calls' = [calls EXCEPT ![p] =
                IF r.err # ErrNil THEN Return(c, r.err)
                ELSE IF IsNone(Deref(r.val).UserID)
                     THEN Return(c, PanicNilDeref)
                     ELSE IF NotOwner(Deref(r.val), userID)
                          THEN Return(c, ErrPermissionDenied)
                          ELSE [c EXCEPT !.pc = "offerRepo.GetByID"]]
    /\ StoreUnchanged

\* lines 110-135: offerRepo.GetByID of the chosen offer, the membership
\* loop and the assignments
UpdateOfferGetByID(p) ==
    /\ calls[p].op = "UpdateProductRequest"
    /\ calls[p].pc = "offerRepo.GetByID"
    /\ \E r \in OfferGetByID(Deref(calls[p].req).SelectedOfferID) :
         LET c == [Traced(calls[p], "offerRepo.GetByID", r.err) EXCEPT !.offer = r.val]
             pr == Deref(c.productRequest)
         IN calls' = [calls EXCEPT ![p] =
                IF r.err # ErrNil THEN Return(c, r.err)
                ELSE IF ~OfferFound(pr, Deref(r.val))
                     THEN Return(c, ErrPermissionDenied)
                     ELSE [c EXCEPT
                             !.productRequest =
                                Some(ApplyUpdate(pr, Deref(c.req), Deref(r.val))),
                             !.pc = "repo.Update"]]
    /\ StoreUnchanged

\* lines 137-141
UpdateRepoUpdate(p) ==
    /\ calls[p].op = "UpdateProductRequest"
    /\ RepoUpdate(p, "done")

Next ==
    \/ \E p \in Procs, prID \in PrIDs, userID \in Callers, req \in StatusDTOs :
          StatusFindByID(p, prID, userID, req)
    \/ \E p \in Procs : StatusUserFindByID(p)
    \/ \E p \in Procs : StatusOfferGetByID(p)
    \/ \E p \in Procs : StatusRepoUpdate(p)
    \/ \E p \in Procs : StatusPrNotify(p)
    \/ \E p \in Procs, prID \in PrIDs, userID \in Owners, req \in UpdateDTOs :
          UpdateFindByID(p, prID, userID, req)
    \/ \E p \in Procs : UpdateOfferGetByID(p)
    \/ \E p \in Procs : UpdateRepoUpdate(p)

Spec == Init /\ [][Next]_vars


\* ---------------------------------------------------- CreateProductRequest
FileNames == {"a.png", "b.png"}
Files == UNION {[1..n -> FileNames] : n \in 0..MaxFiles}

\* the bucket the object store is set up to upload to
Buckets == {"hewpao-s3", "scratch"}

\* minioRepo.UploadFile: the bucket and key the object went to, or the
\* error of that upload
Uploaded(bucket, file) ==
    [err |-> ErrNil,
     info |-> [Bucket |-> <<bucket>>,
               Key |-> <<"product-request-images", "/", file>>]]
UploadFailed(file) ==
    [err |-> "ErrUpload:" \o file, info |-> [Bucket |-> <<>>, Key |-> <<>>]]

\* the upload outcomes the object store may give for the files, one each:
\* the uploads in failing fail, the others succeed
Outcomes(bucket, files) ==
    {[i \in 1..Len(files) |->
        IF i \in failing THEN UploadFailed(files[i])
        ELSE Uploaded(bucket, files[i])] :
        failing \in SUBSET (1..Len(files))}

\* lines 145-155: the upload loop from file i on; the uploads attempted, the
\* infos collected and the first error
RECURSIVE UploadLoop(_, _, _, _, _)
UploadLoop(files, outs, i, uploads, uploadInfos) ==
    IF i > Len(files)
    THEN [err |-> ErrNil, uploads |-> uploads, uploadInfos |-> uploadInfos]
    ELSE IF outs[i].err # ErrNil
         THEN [err |-> outs[i].err, uploads |-> Append(uploads, files[i]),
               uploadInfos |-> uploadInfos]
         ELSE UploadLoop(files, outs, i + 1, Append(uploads, files[i]),
                         Append(uploadInfos, outs[i].info))

\* line 161 written as key + "/" + bucket
URIs_Swapped(uploadInfos) ==
    [i \in 1..Len(uploadInfos) |->
        uploadInfos[i].Key \o <<"/">> \o uploadInfos[i].Bucket]

\* lines 157-162
URIs(uploadInfos) ==
    [i \in 1..Len(uploadInfos) |->
        uploadInfos[i].Bucket \o <<"/">> \o uploadInfos[i].Key]

\* repo.Create: stores the request under a fresh id, or fails
RepoCreateOutcomes == {ErrNil, ErrDB}
NextID == Cardinality(DOMAIN requests) + 1

\* the requests a caller may hand in: not stored yet, with or without an
\* image list of its own
GivenImages == {<<>>, <<<<"caller", "/", "x.png">>>>}
GivenRequests == {NewRequest(0, Some("buyer"), imgs) : imgs \in GivenImages}

\* the model follows the service up to its first stored request: the
\* handler reads nothing of the store, so later calls behave alike
CanCreate == created.stored = 0

\* lines 144-171
CreateProductRequest(productRequest, files, outs) ==
    /\ CanCreate
    /\ LET up == UploadLoop(files, outs, 1, <<>>, <<>>)
           c == [NoCreate EXCEPT !.files = files, !.outs = outs,
                                 !.given = Some(productRequest),
                                 !.uploads = up.uploads]
       IN IF up.err # ErrNil
       THEN /\ created' = [c EXCEPT !.err = up.err]
            /\ UNCHANGED requests
       ELSE \E e \in RepoCreateOutcomes :
              LET pr == [productRequest EXCEPT !.Images = URIs(up.uploadInfos)]
              IN IF e # ErrNil
                 THEN /\ created' = [c EXCEPT !.createArg = Some(pr),
                                              !.createErr = e, !.err = e]
                      /\ UNCHANGED requests
                 ELSE /\ created' = [c EXCEPT !.createArg = Some(pr),
                                              !.createErr = e,
                                              !.stored = NextID,
                                              !.err = ErrNil]
                      /\ requests' =
                           (NextID :> [pr EXCEPT !.ID = NextID]) @@ requests
    /\ UNCHANGED <<ver, calls, paged>>

NextCreate ==
    \E productRequest \in GivenRequests, files \in Files, bucket \in Buckets :
        \E outs \in Outcomes(bucket, files) :
            CreateProductRequest(productRequest, files, outs)

SpecCreate == InitFresh /\ [][NextCreate]_vars

\* --------------------------------------------- GetPaginatedProductRequests
\* Go int arithmetic: two's complement at IntBits bits, division truncating
MaxInt == 2^(IntBits - 1) - 1
MinInt == -(2^(IntBits - 1))
Wrap(x) == ((x - MinInt) % 2^IntBits) + MinInt
Abs(x) == IF x < 0 THEN -x ELSE x
TruncDiv(a, b) ==
    IF (a >= 0) = (b > 0) THEN Abs(a) \div Abs(b) ELSE -(Abs(a) \div Abs(b))

\* line 259
TotalPages(totalRows, limit) ==
    Wrap(TruncDiv(Wrap(Wrap(totalRows + limit) - 1), limit))

\* cfg.S3Expiration and time.ParseDuration of it (line 174)
S3Expirations == {"15m", "soon"}
ParseDuration(str) ==
    IF str = "15m" THEN [err |-> ErrNil, d |-> 900]
    ELSE [err |-> "ErrInvalidDuration", d |-> 0]

\* strings.SplitN(s, sep, 2): s cut at the first occurrence of sep, or s
\* alone when sep does not occur
SplitN2(str, sep) ==
    LET at == {i \in 1..(Len(str) - Len(sep) + 1) :
                  SubSeq(str, i, i + Len(sep) - 1) = sep}
    IN IF at = {}
       THEN <<str>>
       ELSE LET i == CHOOSE k \in at : \A j \in at : k <= j
            IN <<SubSeq(str, 1, i - 1), SubSeq(str, i + Len(sep), Len(str))>>

\* minioRepo.GetSignedURL: the signed URL of the object, or an error for
\* the paths the signer refuses
SignedURL(path) == <<"https://signed", "/">> \o path
ErrSign == "ErrSign"

\* lines 180-187: the loop of getUrls from image i on
RECURSIVE SignLoop(_, _, _, _)
SignLoop(images, refused, i, urls) ==
    IF i > Len(images)
    THEN [err |-> ErrNil, urls |-> urls]
    ELSE LET path == SplitN2(images[i], <<"hewpao-s3", "/">>)
         IN IF Len(path) < 2
            THEN [err |-> PanicIndex, urls |-> <<>>]
            ELSE IF path[2] \in refused
                 THEN [err |-> ErrSign, urls |-> <<>>]
                 ELSE SignLoop(images, refused, i + 1,
                               Append(urls, SignedURL(path[2])))

\* lines 173-189
getUrls(expiration, refused, productRequest) ==
    IF ParseDuration(expiration).err # ErrNil
    THEN [err |-> ParseDuration(expiration).err, urls |-> <<>>]
    ELSE SignLoop(productRequest.Images, refused, 1, <<>>)

\* lines 268-280: the row's projection
DetailOf(productRequest, urls) ==
    [ID |-> productRequest.ID, Desc |-> productRequest.Desc,
     Category |-> productRequest.Category, Images |-> urls,
     Budget |-> productRequest.Budget, Quantity |-> productRequest.Quantity,
     UserID |-> productRequest.UserID, Offers |-> productRequest.Offers]

\* lines 263-282: the loop over the rows from row i on
RECURSIVE RowLoop(_, _, _, _, _)
RowLoop(rows, expiration, refused, i, dest) ==
    IF i > Len(rows)
    THEN [err |-> ErrNil, dest |-> dest]
    ELSE LET u == getUrls(expiration, refused, rows[i])
         IN IF u.err # ErrNil
            THEN [err |-> u.err, dest |-> <<>>]
            ELSE RowLoop(rows, expiration, refused, i + 1,
                         Append(dest, DetailOf(rows[i], u.urls)))

\* repo.FindPaginatedProductRequests: a page of at most limit stored
\* requests and the number of rows in all, or an error
GoodURI == <<"hewpao-s3", "/", "product-request-images", "/", "a.png">>
BadURI == <<"scratch", "/", "product-request-images", "/", "b.png">>
StoredRows ==
    {NewRequest(1, Some("buyer"), <<GoodURI>>),
     NewRequest(2, Some("buyer"), <<GoodURI, BadURI>>),
     NewRequest(3, Some("buyer"), <<>>)}
PageOutcomes(page, limit) ==
    {[err |-> ErrNil, rows |-> rows, totalRows |-> n] :
        rows \in {r \in UNION {[1..k -> StoredRows] : k \in 0..2} :
                     Len(r) <= limit /\ \A i \in 1..Len(r) : r[i].ID = i},
        n \in 0..MaxRows}
    \cup {[err |-> ErrDB, rows |-> <<>>, totalRows |-> 0]}

Pages == {1, 2}
Limits == {0, 1, 2, 3, MaxInt}
PanicDivide == "panic: integer divide by zero"

\* lines 253-293
GetPaginatedProductRequests(page, limit, expiration, refused) ==
    /\ \E r \in PageOutcomes(page, limit) :
         LET c == [NoPage EXCEPT !.page = page, !.limit = limit,
                                 !.totalRows = r.totalRows, !.rows = r.rows]
         IN paged' =
              IF r.err # ErrNil THEN [c EXCEPT !.err = r.err]
              ELSE IF limit = 0 THEN [c EXCEPT !.err = PanicDivide]
              ELSE LET totalPages == TotalPages(r.totalRows, limit)
                       d == RowLoop(r.rows, expiration, refused, 1, <<>>)
                   IN IF d.err # ErrNil THEN [c EXCEPT !.err = d.err]
                      ELSE [c EXCEPT
                              !.err = ErrNil,
                              !.res = Some([Data |-> d.dest, Page |-> page,
                                            Limit |-> limit,
                                            TotalRows |-> r.totalRows,
                                            TotalPages |-> totalPages])]
    /\ UNCHANGED <<requests, ver, calls, created>>

NextPage ==
    \E page \in Pages, limit \in Limits, expiration \in S3Expirations,
       refused \in SUBSET {<<"product-request-images", "/", "a.png">>} :
        GetPaginatedProductRequests(page, limit, expiration, refused)

SpecPage == InitFresh /\ [][NextPage]_vars

\* ============================================================ properties
StatusOp == "UpdateProductRequestStatus"
UpdateOp == "UpdateProductRequest"

IsDone(c) == c.pc = "done"
Names(c) == [i \in 1..Len(c.trace) |-> c.trace[i][1]]
Called(c, what) == \E i \in 1..Len(c.trace) : c.trace[i][1] = what
Succeeded(c, what) == \E i \in 1..Len(c.trace) : c.trace[i] = <<what, ErrNil>>
Failed(c, what) ==
    \E i \in 1..Len(c.trace) : c.trace[i][1] = what /\ c.trace[i][2] # ErrNil
AllSucceeded(c) == \A i \in 1..Len(c.trace) : c.trace[i][2] = ErrNil

\* the three lookups of a status call succeeded
LookupsSucceeded(c) ==
    /\ Succeeded(c, "repo.FindByID")
    /\ Succeeded(c, "userRepo.FindByID")
    /\ Succeeded(c, "offerRepo.GetByID")

Target(c) == Deref(c.req).DeliveryStatus
CallerIsAdmin(c) == UserTable[c.userID].Role = Admin
\* the caller is the owning user of the offer selected in request r
OwnsSelectedOffer(c, r) ==
    /\ ~IsNone(r.SelectedOfferID)
    /\ OfferTable[Deref(r.SelectedOfferID)].UserID = c.userID

\* the call made no attempt to update the store and did not notify
NoSideEffect(c) ==
    /\ ~Called(c, "repo.Update")
    /\ ~Called(c, "PrNotify")
    /\ IsNone(c.updArg)
    /\ IsNone(c.notifyArg)
    /\ c.wroteVer = 0
    /\ ver = c.readVer => requests[c.prID] = Deref(c.snapshot)

\* C1 as stated: on a request with a selected offer and with every lookup
\* succeeding, an administrator's call succeeds for every target, a
\* non-administrator who does not own the selected offer is denied, the
\* offer's owner succeeds exactly for Purchased and is denied otherwise; a
\* denied call leaves the stored status alone and does not notify.
C1_AuthorizationAsStated ==
    \A p \in Procs :
        LET c == calls[p] IN
        (c.op = StatusOp /\ IsDone(c) /\ LookupsSucceeded(c)) =>
            /\ CallerIsAdmin(c) => c.err = ErrNil
            /\ (~CallerIsAdmin(c) /\ ~OwnsSelectedOffer(c, Deref(c.snapshot)))
                  => c.err = ErrPermissionDenied
            /\ (~CallerIsAdmin(c) /\ OwnsSelectedOffer(c, Deref(c.snapshot)))
                  => /\ c.err = ErrNil <=> Target(c) = Purchased
                     /\ Target(c) # Purchased => c.err = ErrPermissionDenied
            /\ c.err = ErrPermissionDenied => NoSideEffect(c)

\* the call passed the authorization: it asked the store to persist the
\* target status, and returns nil exactly when the store and the notifier
\* both succeed, their error otherwise
Authorized(c) ==
    /\ c.err # ErrPermissionDenied
    /\ Called(c, "repo.Update")
    /\ Deref(c.updArg).DeliveryStatus = Target(c)
    /\ c.err = ErrNil <=> AllSucceeded(c)
    /\ Failed(c, "repo.Update") => c.err = ErrDB
    /\ Failed(c, "PrNotify") => c.err = ErrNotify

\* C1 (amended): as C1, with "succeeds" read as "is authorized, and
\* succeeds when the store's Update and the notifier succeed too".
C1_Authorization ==
    \A p \in Procs :
        LET c == calls[p] IN
        (c.op = StatusOp /\ IsDone(c) /\ LookupsSucceeded(c)) =>
            /\ CallerIsAdmin(c) => Authorized(c)
            /\ (~CallerIsAdmin(c) /\ ~OwnsSelectedOffer(c, Deref(c.snapshot)))
                  => c.err = ErrPermissionDenied
            /\ (~CallerIsAdmin(c) /\ OwnsSelectedOffer(c, Deref(c.snapshot)))
                  => IF Target(c) = Purchased
                     THEN Authorized(c)
                     ELSE c.err = ErrPermissionDenied
            /\ c.err = ErrPermissionDenied => NoSideEffect(c)

\* the offer's owner was denied Delivered while an administrator's
\* Delivered went through
C1_Witness ==
    /\ calls[1].op = StatusOp /\ IsDone(calls[1]) /\ LookupsSucceeded(calls[1])
    /\ calls[1].userID = "traveler" /\ Target(calls[1]) = "Delivered"
    /\ calls[1].err = ErrPermissionDenied
    /\ calls[2].op = StatusOp /\ IsDone(calls[2])
    /\ calls[2].userID = "admin" /\ Target(calls[2]) = "Delivered"
    /\ calls[2].err = ErrNil

\* C2: a status call that loads a request with no selected offer returns
\* ErrCouldNotUpdateStatus whoever calls and whatever the target, having
\* looked up neither the user nor an offer, updated nothing and notified
\* nobody.
C2_NoSelectedOffer ==
    \A p \in Procs :
        LET c == calls[p] IN
        (c.op = StatusOp /\ Succeeded(c, "repo.FindByID")
            /\ IsNone(Deref(c.snapshot).SelectedOfferID)) =>
            /\ IsDone(c)
            /\ c.err = ErrCouldNotUpdateStatus
            /\ Names(c) = <<"repo.FindByID">>
            /\ IsNone(c.user) /\ IsNone(c.offer)
            /\ NoSideEffect(c)

\* an administrator was refused on a request without a selected offer
C2_Witness ==
    \E p \in Procs :
        /\ calls[p].op = StatusOp /\ calls[p].userID = "admin"
        /\ Succeeded(calls[p], "repo.FindByID")
        /\ IsNone(Deref(calls[p].snapshot).SelectedOfferID)
        /\ calls[p].err = ErrCouldNotUpdateStatus

OfferIDsOf(r) == {o.ID : o \in r.Offers}

\* C4: the owner's UpdateProductRequest with an offer that exists but is
\* not one of the request's offers returns ErrPermissionDenied and stores
\* nothing; so a stored selectedOfferID is unset or one of the request's
\* offers.
C4_ForeignOfferDenied ==
    /\ \A p \in Procs :
          LET c == calls[p] IN
          (c.op = UpdateOp /\ Succeeded(c, "offerRepo.GetByID")
              /\ Deref(c.offer).ID \notin OfferIDsOf(Deref(c.snapshot))) =>
              /\ IsDone(c)
              /\ c.err = ErrPermissionDenied
              /\ c.productRequest = c.snapshot
              /\ NoSideEffect(c)
    /\ \A id \in DOMAIN requests :
          \/ IsNone(requests[id].SelectedOfferID)
          \/ Deref(requests[id].SelectedOfferID) \in OfferIDsOf(requests[id])

\* the owner chose offer 3, made on another request, and was denied, after
\* an earlier call had selected one of the request's offers
C4_Witness ==
    \E p \in Procs :
        /\ calls[p].op = UpdateOp /\ calls[p].userID = "buyer"
        /\ calls[p].offer = Some(OfferTable[3])
        /\ calls[p].err = ErrPermissionDenied
        /\ requests[1].SelectedOfferID = Some(2)


\* C6: when the owning user of the selected offer, not an administrator,
\* asks for Purchased and every collaborator call succeeds, the call
\* returns nil, the store's Update is called with deliveryStatus Purchased
\* before the notifier, and the notifier is called once, with the request
\* carrying the new status.
C6_PurchasedByOfferOwner ==
    \A p \in Procs :
        LET c == calls[p] IN
        (c.op = StatusOp /\ IsDone(c) /\ LookupsSucceeded(c) /\ AllSucceeded(c)
            /\ ~CallerIsAdmin(c) /\ OwnsSelectedOffer(c, Deref(c.snapshot))
            /\ Target(c) = Purchased) =>
            /\ c.err = ErrNil
            /\ Names(c) = <<"repo.FindByID", "userRepo.FindByID",
                            "offerRepo.GetByID", "repo.Update", "PrNotify">>
            /\ Deref(c.updArg).DeliveryStatus = Purchased
            /\ Deref(c.updArg) = [Deref(c.snapshot) EXCEPT !.DeliveryStatus = Purchased]
            /\ c.notifyArg = c.updArg
            /\ ver = c.wroteVer => requests[c.prID].DeliveryStatus = Purchased

\* the traveler's Purchased went through and is what the store holds
C6_Witness ==
    \E p \in Procs :
        /\ calls[p].op = StatusOp /\ IsDone(calls[p])
        /\ calls[p].userID = "traveler" /\ Target(calls[p]) = Purchased
        /\ calls[p].err = ErrNil
        /\ Succeeded(calls[p], "PrNotify")
        /\ Deref(calls[p].before).DeliveryStatus = "Pending"
        /\ requests[1].DeliveryStatus = Purchased

\* C8: when the store's Update succeeded and the notifier failed, the call
\* returns the notifier's error and the new status stays in the store.
C8_NotifierFailureKeepsWrite ==
    \A p \in Procs :
        LET c == calls[p] IN
        (c.op = StatusOp /\ IsDone(c) /\ Succeeded(c, "repo.Update")
            /\ Failed(c, "PrNotify")) =>
            /\ c.err = ErrNotify
            /\ Names(c)[Len(c.trace)] = "PrNotify"
            /\ ver = c.wroteVer =>
                  /\ requests[c.prID] = Deref(c.updArg)
                  /\ requests[c.prID].DeliveryStatus = Target(c)

\* a call returned an error and the stored status is no longer what it was
C8_Witness ==
    \E p \in Procs :
        /\ calls[p].op = StatusOp /\ IsDone(calls[p])
        /\ calls[p].err = ErrNotify
        /\ ver = calls[p].wroteVer
        /\ requests[1].DeliveryStatus # Deref(calls[p].before).DeliveryStatus
        /\ requests[1].DeliveryStatus = Target(calls[p])

\* the entity a call hands to the store: its snapshot with its own changes
Written(c) ==
    IF c.op = StatusOp
    THEN [Deref(c.snapshot) EXCEPT !.DeliveryStatus = Target(c)]
    ELSE [Deref(c.snapshot) EXCEPT
            !.Name = Deref(c.req).Name, !.Desc = Deref(c.req).Desc,
            !.Budget = Deref(c.req).Budget, !.Category = Deref(c.req).Category,
            !.Quantity = Deref(c.req).Quantity,
            !.SelectedOfferID = Some(Deref(c.req).SelectedOfferID),
            !.SelectedOffer = Some(OfferTable[Deref(c.req).SelectedOfferID])]

\* both calls have returned, both wrote, each read before either wrote, q
\* wrote last and nothing was written since
Raced(p, q) ==
    /\ p # q
    /\ IsDone(calls[p]) /\ IsDone(calls[q])
    /\ calls[p].prID = calls[q].prID
    /\ calls[p].wroteVer > 0
    /\ calls[q].wroteVer > calls[p].wroteVer
    /\ calls[p].readVer < calls[p].wroteVer
    /\ calls[q].readVer < calls[p].wroteVer
    /\ ver = calls[q].wroteVer

\* the later writer q overwrote what the earlier writer p had changed
LastWriteWins(p, q) ==
    /\ requests[calls[q].prID] = Written(calls[q])
    /\ requests[calls[q].prID] = Deref(calls[q].updArg)
    /\ calls[q].before = calls[p].updArg
    /\ calls[q].op = UpdateOp =>
          requests[calls[q].prID].DeliveryStatus
              = Deref(calls[q].snapshot).DeliveryStatus
    /\ calls[q].op = StatusOp =>
          /\ requests[calls[q].prID].SelectedOfferID
                = Deref(calls[q].snapshot).SelectedOfferID
          /\ requests[calls[q].prID].Name = Deref(calls[q].snapshot).Name

\* C9 as stated: of two calls on one request that both read before either
\* writes, both succeed and the store ends with the entity the later one
\* wrote, the earlier one's changes lost.
C9_LastWriteWinsAsStated ==
    \A p, q \in Procs :
        Raced(p, q) =>
            /\ calls[p].err = ErrNil
            /\ calls[q].err = ErrNil
            /\ LastWriteWins(p, q)

\* what a call that wrote returns: nil, or the notifier's error
ReturnedAfterWrite(c) ==
    IF c.op = StatusOp /\ Failed(c, "PrNotify")
    THEN c.err = ErrNotify
    ELSE c.err = ErrNil

\* C9 (amended): as C9, except that a status call whose notifier fails
\* returns the notifier's error although its write was accepted.
C9_LastWriteWins ==
    \A p, q \in Procs :
        Raced(p, q) =>
            /\ ReturnedAfterWrite(calls[p])
            /\ ReturnedAfterWrite(calls[q])
            /\ LastWriteWins(p, q)

\* the traveler's Purchased was accepted, then overwritten by the buyer's
\* update, which had read the request before: the status is Pending again
C9_Witness ==
    \E p, q \in Procs :
        /\ Raced(p, q)
        /\ calls[p].op = StatusOp /\ calls[p].err = ErrNil
        /\ Target(calls[p]) = Purchased
        /\ calls[q].op = UpdateOp /\ calls[q].err = ErrNil
        /\ Deref(calls[q].before).DeliveryStatus = Purchased
        /\ requests[1].DeliveryStatus = "Pending"
        /\ requests[1].Name = "n1"

\* a status call by a user who is not an administrator had its write
\* accepted
NonAdminWrote(c) ==
    /\ c.op = StatusOp
    /\ Succeeded(c, "repo.Update")
    /\ ~CallerIsAdmin(c)

\* C10 as stated: under every interleaving, a non-administrator whose
\* status write is accepted owns the offer selected in the store at the
\* moment of the write, and the write leaves the stored selectedOfferID as
\* it was.
C10_FreshAuthorizationAsStated ==
    \A p \in Procs :
        LET c == calls[p] IN
        NonAdminWrote(c) =>
            /\ OwnsSelectedOffer(c, Deref(c.before))
            /\ Deref(c.updArg).SelectedOfferID = Deref(c.before).SelectedOfferID

\* C10 (amended): the caller owns the offer selected in the snapshot the
\* call read, and the write stores that snapshot's selectedOfferID; when no
\* other write was accepted between the call's read and its write, that is
\* the store's selection at the moment of the write and it is unchanged.
C10_SnapshotAuthorization ==
    \A p \in Procs :
        LET c == calls[p] IN
        NonAdminWrote(c) =>
            /\ OwnsSelectedOffer(c, Deref(c.snapshot))
            /\ Target(c) = Purchased
            /\ Deref(c.updArg).SelectedOfferID = Deref(c.snapshot).SelectedOfferID
            /\ c.wroteVer = c.readVer + 1 =>
                  /\ c.before = c.snapshot
                  /\ OwnsSelectedOffer(c, Deref(c.before))
                  /\ Deref(c.updArg).SelectedOfferID
                        = Deref(c.before).SelectedOfferID

\* the traveler's write was accepted although the buyer had meanwhile
\* selected traveler2's offer: the write put offer 1 back
C10_Witness ==
    \E p \in Procs :
        /\ NonAdminWrote(calls[p])
        /\ calls[p].userID = "traveler"
        /\ calls[p].wroteVer > calls[p].readVer + 1
        /\ Deref(calls[p].before).SelectedOfferID = Some(2)
        /\ requests[1].SelectedOfferID = Some(1)


\* the URI the code is to build for an upload
ExpectedURI(info) == info.Bucket \o <<"/">> \o info.Key
FirstFailure(outs) ==
    CHOOSE k \in 1..Len(outs) :
        /\ outs[k].err # ErrNil
        /\ \A j \in 1..(k - 1) : outs[j].err = ErrNil

\* C5: when all N uploads succeed, the store's Create receives the request
\* with exactly N image URIs, the i-th being "<bucket>/<key>" of the i-th
\* file's upload, whatever image list the caller supplied; when the k-th
\* upload fails the call returns its error, attempts no further upload and
\* never calls Create.
C5_ImagesFromUploads ==
    created.err # Running =>
        LET n == Len(created.files)
            outs == created.outs
        IN IF \A i \in 1..n : outs[i].err = ErrNil
           THEN /\ created.uploads = created.files
                /\ ~IsNone(created.createArg)
                /\ Len(Deref(created.createArg).Images) = n
                /\ \A i \in 1..n :
                      Deref(created.createArg).Images[i] = ExpectedURI(outs[i].info)
                /\ created.err = created.createErr
                /\ created.err = ErrNil =>
                      /\ created.stored \in DOMAIN requests
                      /\ Len(requests[created.stored].Images) = n
                      /\ \A i \in 1..n :
                            requests[created.stored].Images[i]
                               = ExpectedURI(outs[i].info)
           ELSE LET k == FirstFailure(outs)
                IN /\ created.err = outs[k].err
                   /\ created.uploads = SubSeq(created.files, 1, k)
                   /\ IsNone(created.createArg)
                   /\ created.createErr = Running
                   /\ created.stored = 0

\* two files were uploaded and their URIs replaced the caller's own list
C5_Witness ==
    /\ created.err = ErrNil
    /\ created.files = <<"b.png", "a.png">>
    /\ Deref(created.given).Images # <<>>
    /\ Len(requests[created.stored].Images) = 2

Ceil(a, b) == (a + b - 1) \div b

\* C7: for every limit > 0 and every totalRows >= 0 the store reports, the
\* result's totalPages is ceil(totalRows / limit), and page, limit and
\* totalRows are echoed.
C7_TotalPagesIsCeil ==
    (paged.err = ErrNil /\ paged.limit > 0 /\ paged.totalRows >= 0) =>
        LET res == Deref(paged.res) IN
        /\ res.TotalPages = Ceil(paged.totalRows, paged.limit)
        /\ paged.totalRows = 0 => res.TotalPages = 0
        /\ paged.totalRows > 0 =>
              /\ res.TotalPages * paged.limit >= paged.totalRows
              /\ paged.totalRows > (res.TotalPages - 1) * paged.limit
        /\ res.Page = paged.page
        /\ res.Limit = paged.limit
        /\ res.TotalRows = paged.totalRows


\* the quotient of line 259 is the ceiling whenever the sum does not
\* overflow the machine integer
TotalPagesIsCeilWithoutOverflow ==
    (paged.err = ErrNil /\ paged.limit > 0
        /\ paged.totalRows + paged.limit - 1 <= MaxInt) =>
        Deref(paged.res).TotalPages = Ceil(paged.totalRows, paged.limit)

====
